---- MODULE Spec2Model ----
(***************************************************************************)
(* Model of scripts/context-profiler.py (analyze_jsonl and run_live) and  *)
(* of the reader / event loop of scripts/test-askuser.py.                  *)
(*                                                                         *)
(* A line of the subprocess output is a record                             *)
(*   [kind, usage, ws]                                                     *)
(* kind  : what the text of the line is (an assistant record, a result     *)
(*         record, another JSON record, text that is not JSON, or a line   *)
(*         of whitespace only);                                            *)
(* usage : <<input_tokens, cache_creation_input_tokens,                    *)
(*           cache_read_input_tokens, output_tokens>> of an assistant      *)
(*         record (absent keys read as 0);                                 *)
(* ws    : whether the text of the line ends in whitespace (blanks, tabs,  *)
(*         a carriage return) before its line terminator; str.rstrip()     *)
(*         removes it together with the terminator.                        *)
(***************************************************************************)
EXTENDS Integers, Sequences, FiniteSets, TLC

\* ------------------------------------------------------------- bounds
MaxLines == 3        \* lines the subprocess writes to its stdout
MaxTurns == 1        \* largest --turns / --turns-after
MaxInput == 1        \* messages the operator types in interactive mode
MaxBlocks == 3       \* content blocks of an assistant message

\* ------------------------------------------------- program constants
GrowthThreshold == 5000          \* delta > 5000
CompactionThreshold == 10000     \* delta < -10000
SleepStep == 30                  \* range(args.wait, 0, -30), min(30, remaining)
WindowSize == 200000             \* 200K window of the Peak line
LabelLimit == 40                 \* b["text"][:40]

\* ---------------------------------------------------------------- lines
ZeroUsage == <<0, 0, 0, 0>>

\* usage records the subprocess may report: totals 0, 5000 and 15001
UsageVals ==
    { <<0, 0, 0, 1>>, <<0, 0, 5000, 2>>, <<1, 5000, 10000, 3>> }

Kinds == {"assistant", "result", "other", "malformed", "blank"}

MkLine(k, u, w) == [kind |-> k, usage |-> u, ws |-> w]

\* the lines a profiled subprocess may write
Lines ==
    { MkLine("assistant", u, FALSE) : u \in UsageVals }
    \cup { MkLine(k, ZeroUsage, FALSE) : k \in {"result", "other", "malformed"} }

\* the lines of a session in which every record carries usage or ends a turn
TurnLinesOnly ==
    { MkLine("assistant", u, FALSE) : u \in UsageVals \ {<<0, 0, 0, 1>>} }
    \cup { MkLine("result", ZeroUsage, FALSE) }

\* lines with and without trailing whitespace
RawLines ==
    { MkLine(k, ZeroUsage, w) : k \in {"result", "other", "malformed", "blank"},
                                w \in BOOLEAN }

\* the end-of-stream sentinel q.put(None)
None == MkLine("None", ZeroUsage, FALSE)

\* l.rstrip()
rstrip(l) == [l EXCEPT !.ws = FALSE]

\* json.loads(line) succeeds and yields an object
Decodes(l) == l.kind \in {"assistant", "result", "other"}

\* obj.get("type")
TypeOf(l) == l.kind

\* mutant of Total: the cache-read tokens are left out of the total
TotalNoCacheRead(inp, cc, cr) == inp + cc

\* total = inp + cc + cr
Total(inp, cc, cr) == inp + cc + cr

UsageTotal(u) == Total(u[1], u[2], u[3])

\* delta = total - prev
Delta(total, prev) == total - prev

\* analyze_jsonl: flag = " <<<" if delta > 5000; " <<< COMPACTION" if delta < -10000
FlagAnalyze(delta) ==
    IF delta < -CompactionThreshold THEN " <<< COMPACTION"
    ELSE IF delta > GrowthThreshold THEN " <<<"
    ELSE ""

\* do_turn: flag = " <<<" if delta > 5000 else ""
FlagLive(delta) == IF delta > GrowthThreshold THEN " <<<" ELSE ""

\* print_row(turn, total, inp, cc, cr, out, delta, note, flag)
Row(t, total, inp, cc, cr, out, delta, flag) ==
    [turn |-> t, total |-> total, inp |-> inp, cc |-> cc, cr |-> cr,
     out |-> out, delta |-> delta, flag |-> flag]

\* the slot of wait_for_result: last_total, last_inp, last_cc, last_cr, last_out
Slot(total, inp, cc, cr, out) ==
    [total |-> total, inp |-> inp, cc |-> cc, cr |-> cr, out |-> out]

EmptySlot == Slot(0, 0, 0, 0, 0)

\* ------------------------------------------- run_live, pure parts
\* mutant of SlotUpdate: the slot keeps the largest total seen, not the last
SlotUpdateMax(slot, u) ==
    IF UsageTotal(u) > slot.total
    THEN Slot(UsageTotal(u), u[1], u[2], u[3], u[4])
    ELSE slot

\* mutant of SlotUpdate: the output count of the slot is not replaced
SlotUpdateStaleOut(slot, u) ==
    IF UsageTotal(u) > 0
    THEN Slot(UsageTotal(u), u[1], u[2], u[3], slot.out)
    ELSE slot

\* wait_for_result, an assistant record: the slot after lines 121-128
SlotUpdate(slot, u) ==
    IF UsageTotal(u) > 0
    THEN Slot(UsageTotal(u), u[1], u[2], u[3], u[4])
    ELSE slot

\* do_turn after wait_for_result has returned: the row it prints
LiveRow(t, slot, p) ==
    Row(t, slot.total, slot.inp, slot.cc, slot.cr, slot.out,
        Delta(slot.total, p), FlagLive(Delta(slot.total, p)))

\* mutant of NextTurn: an ordinal is skipped
NextTurnSkip(t) == t + 2

\* do_turn: turn += 1
NextTurn(t) == t + 1

\* mutant of NextPrev: prev is not advanced
NextPrevStale(total, p) == p

\* do_turn: prev = total
NextPrev(total, p) == total

\* the value printed by the Peak line
Peak(p) == p

\* prev * 100 // 200000 of the Peak line
PeakPct(p) == (p * 100) \div WindowSize

\* ------------------------------------------------------ analyze_jsonl
\* line.strip() is empty
IsBlank(l) == l.kind = "blank"

\* the row analyze_jsonl prints for an assistant record with usage u
AnalyzeRow(t, u, p) ==
    Row(t, UsageTotal(u), u[1], u[2], u[3], u[4],
        Delta(UsageTotal(u), p), FlagAnalyze(Delta(UsageTotal(u), p)))

\* if total == 0: continue
Countable(u) == UsageTotal(u) # 0

\* analyze_jsonl before its loop: prev = 0, turn = 0, nothing printed
AnalyzeInit == [pc |-> "scan", prev |-> 0, turn |-> 0, rows |-> <<>>, peak |-> -1]

\* one iteration of "for line in source" from state st; json.loads raises on
\* a line that is not JSON and nothing catches it
AnalyzeLine(st, line) ==
    IF st.pc # "scan" THEN st
    ELSE IF IsBlank(line) THEN st
    ELSE IF ~Decodes(line) THEN [st EXCEPT !.pc = "crashed"]
    ELSE IF TypeOf(line) # "assistant" THEN st
    ELSE IF ~Countable(line.usage) THEN st
    ELSE [st EXCEPT !.turn = NextTurn(st.turn),
                    !.rows = Append(st.rows,
                                    AnalyzeRow(NextTurn(st.turn), line.usage, st.prev)),
                    !.prev = NextPrev(UsageTotal(line.usage), st.prev)]

\* the loop over the first n lines of source
RECURSIVE AnalyzeLoop(_, _)
AnalyzeLoop(source, n) ==
    IF n = 0 THEN AnalyzeInit
    ELSE LET st == AnalyzeLoop(source, n - 1) IN AnalyzeLine(st, source[n])

\* analyze_jsonl(source): the loop, then the Peak line
analyze_jsonl(source) ==
    LET st == AnalyzeLoop(source, Len(source)) IN
    IF st.pc = "scan" THEN [st EXCEPT !.pc = "done", !.peak = Peak(st.prev)] ELSE st

\* ----------------------------------------- analyze_jsonl, the label
\* a text is the sequence of its characters; only its length matters here
Chars(n) == [k \in 1..n |-> k]

\* note = ""
NoNote == <<>>

\* the content blocks an assistant message may carry: b.get("type"), b["text"],
\* b["name"]
Blocks ==
    { [type |-> "text", text |-> Chars(n), name |-> ""] :
          n \in {2, LabelLimit, LabelLimit + 1} }
    \cup { [type |-> "tool_use", text |-> <<>>, name |-> nm] : nm \in {"Read", "Bash"} }
    \cup { [type |-> "thinking", text |-> <<>>, name |-> ""] }

\* msg.get("content", []): up to MaxBlocks blocks
Contents == UNION { [1..n -> Blocks] : n \in 0..MaxBlocks }

\* mutant of Take: the text is not cut
TakeAll(s, n) == s

\* s[:n]
Take(s, n) == SubSeq(s, 1, IF Len(s) < n THEN Len(s) ELSE n)

\* f'[{b["name"]}]'
ToolNote(nm) == <<"[", nm, "]">>

\* for b in content: the first text or tool_use block sets note and breaks
RECURSIVE LabelFrom(_, _)
LabelFrom(c, k) ==
    IF k > Len(c) THEN NoNote
    ELSE IF c[k].type = "text" THEN Take(c[k].text, LabelLimit)
    ELSE IF c[k].type = "tool_use" THEN ToolNote(c[k].name)
    ELSE LabelFrom(c, k + 1)

Label(c) == LabelFrom(c, 1)

\* ------------------------------------------------------------ state
VARIABLES
    args,        \* parse_args(): [prompt, turns, wait, turns_after]
    proc,        \* the subprocess: "running" or "exited"
    stdout,      \* lines written by the subprocess, not yet read by the reader
    emitted,     \* every line the subprocess has written, in order
    replay,      \* analyze_jsonl's loop state after the lines written so far
    q,           \* queue.Queue(): lines handed from the reader to the driver
    reader_done, \* the reader thread has reached end-of-file and ended
    pc,          \* position of the main thread
    awaiting,    \* the main thread is inside wait_for_result()
    i,           \* turns done by the current for loop
    remaining,   \* loop variable of the wait phase
    slept,       \* seconds slept in the wait phase
    inputs,      \* messages read by input()
    last,        \* last_total, last_inp, last_cc, last_cr, last_out
    prev,        \* prev of run_live
    turn,        \* turn of run_live
    rows,        \* rows printed by do_turn
    peak,        \* value of the Peak line of run_live, -1 before it is printed
    consumed,    \* every item q.get() has returned, in order
    turn_from,   \* Len(consumed) when the current wait_for_result() began
    sent,        \* messages written to proc.stdin
    stdin_open,  \* proc.stdin has not been closed
    content,     \* msg.get("content", []) of the record whose label is extracted
    note         \* note of analyze_jsonl for that record

procVars == <<proc, stdout, emitted, replay>>
readerVars == <<q, reader_done>>
flowVars == <<pc, awaiting, i, remaining, slept, inputs>>
turnVars == <<last, prev, turn, rows, peak>>
ioVars == <<consumed, turn_from, sent, stdin_open>>
labelVars == <<content, note>>
vars == <<args, procVars, readerVars, flowVars, turnVars, ioVars, labelVars>>

WaitVals == {0, 45}

\* --turns-after is read only when --wait > 0
Args ==
    { a \in [prompt : BOOLEAN, turns : 0..MaxTurns, wait : WaitVals,
             turns_after : 0..MaxTurns] : a.wait = 0 => a.turns_after = 0 }

Min(a, b) == IF a < b THEN a ELSE b

\* mutant of SleepFor: every sleep lasts a full step
SleepForStep(r) == SleepStep

\* time.sleep(min(30, remaining))
SleepFor(r) == Min(SleepStep, r)

\* the main thread has ended (normally or by an uncaught exception)
Ended == pc \in {"done", "crashed"}

InitCommon ==
    /\ proc = "running"
    /\ stdout = <<>>
    /\ emitted = <<>>
    /\ replay = AnalyzeInit
    /\ q = <<>>
    /\ reader_done = FALSE
    /\ awaiting = FALSE
    /\ i = 0
    /\ remaining = 0
    /\ slept = 0
    /\ inputs = 0
    /\ last = EmptySlot
    /\ prev = 0
    /\ turn = 0
    /\ rows = <<>>
    /\ peak = -1
    /\ consumed = <<>>
    /\ turn_from = 0
    /\ sent = 0
    /\ stdin_open = TRUE

Init ==
    /\ args \in Args
    /\ pc = "prompt"
    /\ content = <<>>
    /\ note = NoNote
    /\ InitCommon

\* ------------------------------------------------------- subprocess
\* the subprocess writes one line of L to its stdout, at most n in all; nobody
\* reads its stdout once the main thread has ended. replay follows the log:
\* it is the state analyze_jsonl reaches on the lines written so far
ProcEmit(L, n) ==
    /\ proc = "running"
    /\ ~Ended
    /\ Len(emitted) < n
    /\ \E l \in L :
        /\ stdout' = Append(stdout, l)
        /\ emitted' = Append(emitted, l)
        /\ replay' = AnalyzeLine(replay, l)
    /\ UNCHANGED <<args, labelVars, proc, readerVars, flowVars, turnVars, ioVars>>

\* the subprocess exits; its stdout reaches end-of-file after the buffered lines
ProcExit ==
    /\ proc = "running"
    /\ proc' = "exited"
    /\ UNCHANGED <<args, labelVars, stdout, emitted, replay, readerVars, flowVars, turnVars, ioVars>>

\* ----------------------------------------------------- reader thread
\* q.put(x)
QPut(queue, x) == Append(queue, x)

\* [q.put(l.rstrip()) for l in proc.stdout]
ReaderRead ==
    /\ ~reader_done
    /\ ~Ended
    /\ stdout # <<>>
    /\ q' = QPut(q, rstrip(Head(stdout)))
    /\ stdout' = Tail(stdout)
    /\ UNCHANGED <<args, labelVars, proc, emitted, replay, reader_done, flowVars, turnVars, ioVars>>

\* lines the reader has taken from the subprocess output
LinesRead == Len(emitted) - Len(stdout)

\* [q.put(...) for l in proc.stdout] or q.put(None), at end-of-file: the list
\* holds one None per line read, and a list that is not empty is true, so
\* q.put(None) is evaluated only when no line was read
ReaderEnd(queue, nread) == IF nread = 0 THEN QPut(queue, None) ELSE queue

\* the reader thread of run_live reaches end-of-file and ends
ReaderEOF ==
    /\ ~reader_done
    /\ ~Ended
    /\ stdout = <<>>
    /\ proc = "exited"
    /\ q' = ReaderEnd(q, LinesRead)
    /\ reader_done' = TRUE
    /\ UNCHANGED <<args, labelVars, procVars, flowVars, turnVars, ioVars>>

\* ------------------------------------------------------- main thread
\* mutant of BeginTurn: wait_for_result does not reset its slot
BeginTurnNoReset ==
    IF proc = "running"
    THEN /\ sent' = sent + 1
         /\ awaiting' = TRUE
         /\ last' = last
         /\ turn_from' = Len(consumed)
         /\ pc' = pc
    ELSE /\ pc' = "crashed"
         /\ UNCHANGED <<sent, awaiting, last, turn_from>>

\* do_turn(msg): send(msg), then wait_for_result() resets its slot and blocks.
\* Writing to the stdin of a subprocess that has exited raises BrokenPipeError,
\* which nothing catches.
BeginTurn ==
    IF proc = "running"
    THEN /\ sent' = sent + 1
         /\ awaiting' = TRUE
         /\ last' = EmptySlot
         /\ turn_from' = Len(consumed)
         /\ pc' = pc
    ELSE /\ pc' = "crashed"
         /\ UNCHANGED <<sent, awaiting, last, turn_from>>

\* where the main thread stands once do_turn has returned
AfterTurn ==
    /\ pc' = IF pc = "prompt" THEN "initial" ELSE pc
    /\ i' = IF pc \in {"initial", "post_wait"} THEN i + 1 ELSE i

\* wait_for_result returns the slot; do_turn counts the turn, prints the row
FinishTurn ==
    /\ awaiting' = FALSE
    /\ turn' = NextTurn(turn)
    /\ rows' = Append(rows, LiveRow(NextTurn(turn), last, prev))
    /\ prev' = NextPrev(last.total, prev)
    /\ AfterTurn
    /\ UNCHANGED <<last, peak>>

\* if args.prompt: do_turn(args.prompt, ...)
PromptTurn ==
    /\ pc = "prompt" /\ ~awaiting
    /\ args.prompt
    /\ BeginTurn
    /\ UNCHANGED <<args, labelVars, procVars, readerVars, i, remaining, slept, inputs,
                   prev, turn, rows, peak, consumed, stdin_open>>

NoPrompt ==
    /\ pc = "prompt" /\ ~awaiting
    /\ ~args.prompt
    /\ pc' = "initial"
    /\ UNCHANGED <<args, labelVars, procVars, readerVars, awaiting, i, remaining, slept, inputs,
                   turnVars, ioVars>>

\* for _ in range(args.turns): do_turn("Say OK.", "auto")
InitialTurn ==
    /\ pc = "initial" /\ ~awaiting
    /\ i < args.turns
    /\ BeginTurn
    /\ UNCHANGED <<args, labelVars, procVars, readerVars, i, remaining, slept, inputs,
                   prev, turn, rows, peak, consumed, stdin_open>>

\* if args.turns == 0 and not args.prompt
Interactive == args.turns = 0 /\ ~args.prompt

\* the initial turns are over: the wait phase if args.wait > 0
InitialDone ==
    /\ pc = "initial" /\ ~awaiting
    /\ i >= args.turns
    /\ IF args.wait > 0
       THEN pc' = "wait" /\ remaining' = args.wait
       ELSE /\ pc' = IF Interactive THEN "interactive" ELSE "close"
            /\ UNCHANGED remaining
    /\ i' = 0
    /\ UNCHANGED <<args, labelVars, procVars, readerVars, awaiting, slept, inputs,
                   turnVars, ioVars>>

\* mutant of WaitTick: the pause empties the queue
WaitTickDrains ==
    /\ pc = "wait"
    /\ remaining > 0
    /\ slept' = slept + SleepFor(remaining)
    /\ remaining' = remaining - SleepStep
    /\ q' = <<>>
    /\ UNCHANGED <<args, labelVars, procVars, reader_done, pc, awaiting, i, inputs,
                   turnVars, ioVars>>

\* for remaining in range(args.wait, 0, -30): time.sleep(min(30, remaining))
WaitTick ==
    /\ pc = "wait"
    /\ remaining > 0
    /\ slept' = slept + SleepFor(remaining)
    /\ remaining' = remaining - SleepStep
    /\ UNCHANGED <<args, labelVars, procVars, readerVars, pc, awaiting, i, inputs,
                   turnVars, ioVars>>

WaitDone ==
    /\ pc = "wait"
    /\ remaining <= 0
    /\ pc' = "post_wait"
    /\ UNCHANGED <<args, labelVars, procVars, readerVars, awaiting, i, remaining, slept, inputs,
                   turnVars, ioVars>>

\* for _ in range(args.turns_after): do_turn("Say OK.", "post-wait")
PostWaitTurn ==
    /\ pc = "post_wait" /\ ~awaiting
    /\ i < args.turns_after
    /\ BeginTurn
    /\ UNCHANGED <<args, labelVars, procVars, readerVars, i, remaining, slept, inputs,
                   prev, turn, rows, peak, consumed, stdin_open>>

PostWaitDone ==
    /\ pc = "post_wait" /\ ~awaiting
    /\ i >= args.turns_after
    /\ pc' = IF Interactive THEN "interactive" ELSE "close"
    /\ UNCHANGED <<args, labelVars, procVars, readerVars, awaiting, i, remaining, slept, inputs,
                   turnVars, ioVars>>

\* msg = input("> "); if msg.strip(): do_turn(msg); a blank line changes nothing
InputMessage ==
    /\ pc = "interactive" /\ ~awaiting
    /\ inputs < MaxInput
    /\ inputs' = inputs + 1
    /\ BeginTurn
    /\ UNCHANGED <<args, labelVars, procVars, readerVars, i, remaining, slept,
                   prev, turn, rows, peak, consumed, stdin_open>>

\* mutant of Interrupt: an interrupted turn is counted and its row printed
InterruptClosesTurn ==
    /\ pc = "interactive"
    /\ pc' = "close"
    /\ awaiting' = FALSE
    /\ IF awaiting
       THEN /\ turn' = NextTurn(turn)
            /\ rows' = Append(rows, LiveRow(NextTurn(turn), last, prev))
            /\ prev' = NextPrev(last.total, prev)
       ELSE UNCHANGED <<turn, rows, prev>>
    /\ UNCHANGED <<args, labelVars, procVars, readerVars, i, remaining, slept, inputs,
                   last, peak, ioVars>>

\* except (KeyboardInterrupt, EOFError): pass -- in input() or inside do_turn
Interrupt ==
    /\ pc = "interactive"
    /\ pc' = "close"
    /\ awaiting' = FALSE
    /\ UNCHANGED <<args, labelVars, procVars, readerVars, i, remaining, slept, inputs,
                   turnVars, ioVars>>

\* mutant of HandleRecord: a record of any other type ends the turn
HandleRecordOtherEnds(line) ==
    IF ~Decodes(line)
    THEN /\ pc' = "crashed"
         /\ awaiting' = FALSE
         /\ UNCHANGED <<i, turnVars>>
    ELSE IF TypeOf(line) = "assistant"
    THEN /\ last' = SlotUpdate(last, line.usage)
         /\ UNCHANGED <<pc, awaiting, i, prev, turn, rows, peak>>
    ELSE FinishTurn

\* the rest of one iteration of wait_for_result for a line that is not None:
\* json.loads raises on a line that is not JSON, and nothing catches it
HandleRecord(line) ==
    IF ~Decodes(line)
    THEN /\ pc' = "crashed"
         /\ awaiting' = FALSE
         /\ UNCHANGED <<i, turnVars>>
    ELSE IF TypeOf(line) = "assistant"
    THEN /\ last' = SlotUpdate(last, line.usage)
         /\ UNCHANGED <<pc, awaiting, i, prev, turn, rows, peak>>
    ELSE IF TypeOf(line) = "result"
    THEN FinishTurn
    ELSE UNCHANGED <<pc, awaiting, i, turnVars>>

\* mutant of Handle: no test for the sentinel, so json.loads(None) raises
HandleNoSentinel(line) == HandleRecord(line)

\* one iteration of wait_for_result after line = q.get(), and the rest of
\* do_turn when it returns
Handle(line) == IF line = None THEN FinishTurn ELSE HandleRecord(line)

\* line = q.get() and what follows it
Get ==
    /\ awaiting
    /\ q # <<>>
    /\ q' = Tail(q)
    /\ consumed' = Append(consumed, Head(q))
    /\ Handle(Head(q))
    /\ UNCHANGED <<args, labelVars, procVars, reader_done, remaining, slept, inputs,
                   turn_from, sent, stdin_open>>

\* proc.stdin.close()
CloseStdin ==
    /\ pc = "close"
    /\ stdin_open' = FALSE
    /\ pc' = "exit_wait"
    /\ UNCHANGED <<args, labelVars, procVars, readerVars, awaiting, i, remaining, slept, inputs,
                   turnVars, consumed, turn_from, sent>>

\* proc.wait(timeout=5) returns; the Peak line is printed
ExitWaitDone ==
    /\ pc = "exit_wait"
    /\ proc = "exited"
    /\ peak' = Peak(prev)
    /\ pc' = "done"
    /\ UNCHANGED <<args, labelVars, procVars, readerVars, awaiting, i, remaining, slept, inputs,
                   last, prev, turn, rows, ioVars>>

\* proc.wait(timeout=5) raises TimeoutExpired, which nothing catches
ExitWaitTimeout ==
    /\ pc = "exit_wait"
    /\ proc = "running"
    /\ pc' = "crashed"
    /\ UNCHANGED <<args, labelVars, procVars, readerVars, awaiting, i, remaining, slept, inputs,
                   turnVars, ioVars>>

\* ------------------------------------------------- test-askuser.py
AskInit ==
    /\ args = [prompt |-> TRUE, turns |-> 0, wait |-> 0, turns_after |-> 0]
    /\ pc = "ask_send"
    /\ content = <<>>
    /\ note = NoNote
    /\ InitCommon

\* read_stdout: q.put(None) after the loop over proc.stdout
AskReaderEOF ==
    /\ ~reader_done
    /\ ~Ended
    /\ stdout = <<>>
    /\ proc = "exited"
    /\ q' = QPut(q, None)
    /\ reader_done' = TRUE
    /\ UNCHANGED <<args, labelVars, procVars, flowVars, turnVars, ioVars>>

\* proc.stdin.write(msg + "\n"); proc.stdin.flush()
AskSend ==
    /\ pc = "ask_send"
    /\ IF proc = "running"
       THEN sent' = sent + 1 /\ pc' = "ask_loop"
       ELSE pc' = "crashed" /\ UNCHANGED sent
    /\ UNCHANGED <<args, labelVars, procVars, readerVars, awaiting, i, remaining, slept, inputs,
                   turnVars, consumed, turn_from, stdin_open>>

\* where the event loop stands after handling line: None and a result record
\* break, a line that is not JSON is printed and skipped, the rest continue
AskAfter(line) ==
    IF line = None THEN "ask_close"
    ELSE IF ~Decodes(line) THEN "ask_loop"
    ELSE IF TypeOf(line) = "result" THEN "ask_close"
    ELSE "ask_loop"

\* line = q.get(timeout=90) and one iteration of the event loop
AskGet ==
    /\ pc = "ask_loop"
    /\ q # <<>>
    /\ q' = Tail(q)
    /\ consumed' = Append(consumed, Head(q))
    /\ pc' = AskAfter(Head(q))
    /\ UNCHANGED <<args, labelVars, procVars, reader_done, awaiting, i, remaining, slept, inputs,
                   turnVars, turn_from, sent, stdin_open>>

\* except queue.Empty: break
AskTimeout ==
    /\ pc = "ask_loop"
    /\ q = <<>>
    /\ pc' = "ask_close"
    /\ UNCHANGED <<args, labelVars, procVars, readerVars, awaiting, i, remaining, slept, inputs,
                   turnVars, ioVars>>

\* proc.stdin.close()
AskClose ==
    /\ pc = "ask_close"
    /\ stdin_open' = FALSE
    /\ pc' = "ask_wait"
    /\ UNCHANGED <<args, labelVars, procVars, readerVars, awaiting, i, remaining, slept, inputs,
                   turnVars, consumed, turn_from, sent>>

\* proc.wait() returns
AskExit ==
    /\ pc = "ask_wait"
    /\ proc = "exited"
    /\ pc' = "done"
    /\ UNCHANGED <<args, labelVars, procVars, readerVars, awaiting, i, remaining, slept, inputs,
                   turnVars, ioVars>>

\* ------------------------------------------------------ specification
\* the steps of run_live, of its reader thread and of the subprocess's exit
LiveNext ==
    \/ ProcExit
    \/ ReaderRead
    \/ ReaderEOF
    \/ PromptTurn
    \/ NoPrompt
    \/ InitialTurn
    \/ InitialDone
    \/ WaitTick
    \/ WaitDone
    \/ PostWaitTurn
    \/ PostWaitDone
    \/ InputMessage
    \/ Interrupt
    \/ Get
    \/ CloseStdin
    \/ ExitWaitDone
    \/ ExitWaitTimeout

\* a profiled session over any lines
Next == ProcEmit(Lines, MaxLines) \/ LiveNext

Spec == Init /\ [][Next]_vars

\* a profiled session one line longer, over records that carry usage or end a turn
TurnsNext == ProcEmit(TurnLinesOnly, MaxLines + 1) \/ LiveNext

TurnsSpec == Init /\ [][TurnsNext]_vars

AskNext ==
    \/ ProcEmit(RawLines, MaxLines)
    \/ ProcExit
    \/ ReaderRead
    \/ AskReaderEOF
    \/ AskSend
    \/ AskGet
    \/ AskTimeout
    \/ AskClose
    \/ AskExit

AskSpec == AskInit /\ [][AskNext]_vars

\* ---------------------------------------- label extraction on its own
LabelInit ==
    /\ args = [prompt |-> FALSE, turns |-> 0, wait |-> 0, turns_after |-> 0]
    /\ pc = "label"
    /\ content \in Contents
    /\ note = NoNote
    /\ InitCommon

\* lines 68-76 of analyze_jsonl on the content of one assistant record
ExtractLabel ==
    /\ pc = "label"
    /\ note' = Label(content)
    /\ pc' = "labelled"
    /\ UNCHANGED <<args, content, procVars, readerVars, awaiting, i, remaining,
                   slept, inputs, turnVars, ioVars>>

LabelNext == ExtractLabel

LabelSpec == LabelInit /\ [][LabelNext]_vars

\* ------------------------------------- sessions over any --wait value
WaitValsWide == {0, 15, 30, 45, 60}

\* every combination of the options, --turns-after without --wait included
WaitArgs == [prompt : BOOLEAN, turns : 0..MaxTurns, wait : WaitValsWide,
             turns_after : 0..MaxTurns]

\* the subprocess answers every message with a result record
ResultOnly == { MkLine("result", ZeroUsage, FALSE) }

WaitInit ==
    /\ args \in WaitArgs
    /\ pc = "prompt"
    /\ content = <<>>
    /\ note = NoNote
    /\ InitCommon

WaitNext == ProcEmit(ResultOnly, MaxLines) \/ LiveNext

WaitSpec == WaitInit /\ [][WaitNext]_vars

\* ------------------------------------------------------------ helpers
IsPrefix(s, t) == Len(s) <= Len(t) /\ SubSeq(t, 1, Len(s)) = s

Last(s) == s[Len(s)]

\* the rows analyze_jsonl prints when it replays everything the subprocess wrote
ReplayRows == replay.rows

\* the emitted rows of both programs
AllRows == {rows, ReplayRows}

\* (ordinal, total, delta, flag) of each row
Tuples(R) == [k \in 1..Len(R) |-> <<R[k].turn, R[k].total, R[k].delta, R[k].flag>>]

RECURSIVE SumTotals(_, _)
SumTotals(R, k) ==
    IF k = 0 THEN 0 ELSE SumTotals(R, k - 1) + R[k].inp + R[k].cc + R[k].cr

RECURSIVE SumDeltas(_, _)
SumDeltas(R, k) == IF k = 0 THEN 0 ELSE SumDeltas(R, k - 1) + R[k].delta

\* the items dequeued by the current (or last) wait_for_result call
TurnLines == SubSeq(consumed, turn_from + 1, Len(consumed))

\* the usage of the last assistant record with a non-zero total among the first n of s
RECURSIVE LastNonZero(_, _)
LastNonZero(s, n) ==
    IF n = 0 THEN EmptySlot
    ELSE IF s[n].kind = "assistant" /\ UsageTotal(s[n].usage) > 0
    THEN Slot(UsageTotal(s[n].usage), s[n].usage[1], s[n].usage[2],
              s[n].usage[3], s[n].usage[4])
    ELSE LastNonZero(s, n - 1)

SlotOfRow(r) == Slot(r.total, r.inp, r.cc, r.cr, r.out)

IsTerminal(l) == l = None \/ l.kind = "result"

\* the last wait_for_result call has returned on a terminal event
TurnClosed ==
    /\ ~awaiting
    /\ pc # "crashed"
    /\ Len(consumed) > turn_from
    /\ IsTerminal(Last(consumed))

\* ------------------------------------------------------------- claims

\* C1: in the rows of the live driver and of the analyzer alike, the delta of
\* row k is total(k) - total(k-1), and the delta of row 1 is total(1) - 0.
C1_DeltaIsDifference ==
    \A R \in AllRows : \A k \in 1..Len(R) :
        R[k].delta = R[k].total - (IF k = 1 THEN 0 ELSE R[k - 1].total)

\* C1 witness: both programs have printed a second row, the live one a drop
C1_Witness ==
    /\ Len(rows) >= 2 /\ rows[2].delta < 0 /\ rows[1].total > 0
    /\ Len(ReplayRows) >= 2 /\ ReplayRows[2].delta # ReplayRows[2].total

\* C2 as stated: the total of row k is the sum of new + cache-creation +
\* cache-read over rows 1..k.
C2_TotalIsSumOverTurns ==
    \A R \in AllRows : \A k \in 1..Len(R) : R[k].total = SumTotals(R, k)

\* C2 amended: the total of row k is new + cache-creation + cache-read of row
\* k's own usage snapshot (which is also the sum of the deltas of rows 1..k),
\* and prev is the total of the last row printed.
C2_TotalIsOwnSnapshot ==
    /\ \A R \in AllRows : \A k \in 1..Len(R) :
        /\ R[k].total = R[k].inp + R[k].cc + R[k].cr
        /\ R[k].total = SumDeltas(R, k)
    /\ prev = (IF rows = <<>> THEN 0 ELSE Last(rows).total)
    /\ replay.prev = (IF replay.rows = <<>> THEN 0 ELSE Last(replay.rows).total)

\* C2 witness: two rows with non-zero totals in both programs
C2_Witness ==
    /\ Len(rows) >= 2 /\ rows[1].total > 0 /\ rows[2].total > 0
    /\ Len(ReplayRows) >= 2

\* C3: a turn whose usage total is zero is skipped, in the analyzer (an
\* assistant record with zero total) and in the live driver (a turn that
\* reaches its terminal event with the slot still zero): no row, the turn
\* ordinal and prev unchanged.
C3_ZeroTurnSkipped ==
    [][ /\ (awaiting /\ consumed' # consumed /\ ~awaiting' /\ pc' # "crashed"
              /\ last.total = 0)
           => (turn' = turn /\ rows' = rows /\ prev' = prev)
        /\ (emitted' # emitted /\ Last(emitted').kind = "assistant"
              /\ UsageTotal(Last(emitted').usage) = 0)
           => replay' = replay ]_vars

\* the flag the claim gives a delta
ClaimedFlag(delta) ==
    IF delta > 5000 THEN " <<<"
    ELSE IF delta < -10000 THEN " <<< COMPACTION"
    ELSE ""

\* C4: in every row of either program the flag is that function of the delta:
\* large growth above 5000, compaction below -10000, none in between.
C4_FlagIsFunctionOfDelta ==
    \A R \in AllRows : \A k \in 1..Len(R) : R[k].flag = ClaimedFlag(R[k].delta)

\* C5: when a live session has ended normally having consumed every record the
\* subprocess wrote, replaying those records through analyze_jsonl gives the
\* same (ordinal, total, delta, flag) tuples as the live driver printed.
C5_ReplayEqualsLive ==
    (pc = "done" /\ SelectSeq(consumed, LAMBDA l : l # None) = emitted)
        => Tuples(ReplayRows) = Tuples(rows)

\* C6: while a turn is awaited the slot is the usage of the last assistant
\* record with non-zero total dequeued in this turn, and the row of a closed
\* turn reports exactly that usage.
C6_LastNonZeroWins ==
    /\ awaiting => last = LastNonZero(TurnLines, Len(TurnLines))
    /\ TurnClosed =>
          /\ rows # <<>>
          /\ SlotOfRow(Last(rows)) = LastNonZero(TurnLines, Len(TurnLines) - 1)

\* C6 witness: a closed turn in which a larger total was followed by a smaller
\* one; the row reports the smaller one
C6_Witness ==
    /\ TurnClosed
    /\ Len(TurnLines) = 3
    /\ UsageTotal(TurnLines[1].usage) = 15001
    /\ UsageTotal(TurnLines[2].usage) = 5000
    /\ Last(rows).total = 5000

\* C7: dequeuing the sentinel while a turn is awaited ends the wait and closes
\* the turn with a row built from the slot as it stood.
C7_SentinelClosesTurn ==
    [][ (awaiting /\ q # <<>> /\ Head(q) = None /\ consumed' # consumed)
        => /\ ~awaiting'
           /\ pc' # "crashed"
           /\ turn' = turn + 1
           /\ Len(rows') = Len(rows) + 1
           /\ SlotOfRow(Last(rows')) = last ]_vars

\* C7 witness: a turn with no result record, closed by the sentinel
C7_Witness ==
    /\ TurnClosed
    /\ Last(consumed) = None
    /\ turn = 1
    /\ Len(rows) = 1
    /\ rows[1].total = 0

\* the driver has dequeued the sentinel
SentinelSeen == \E k \in 1..Len(consumed) : consumed[k] = None

\* C8: once the driver has dequeued the sentinel it submits no further
\* message, never waits on the queue again and is not ended by an exception.
C8_SentinelEndsSession ==
    [][ SentinelSeen => (sent' = sent /\ ~awaiting' /\ pc' # "crashed") ]_vars

\* C9: after a line that does not decode is consumed, processing continues:
\* the live driver stays in its turn with ordinal, prev and slot unchanged,
\* and the analyzer goes on scanning with its state unchanged.
C9_MalformedIsSkipped ==
    [][ /\ (awaiting /\ q # <<>> /\ Head(q) # None /\ ~Decodes(Head(q))
              /\ consumed' # consumed)
           => (awaiting' /\ pc' = pc /\ turn' = turn /\ prev' = prev /\ last' = last)
        /\ (emitted' # emitted /\ ~Decodes(Last(emitted')))
           => replay' = replay ]_vars

\* C10: every line is queued unchanged in emission order and end-of-stream
\* adds exactly one sentinel: dequeued items, queue and unread lines together
\* are exactly the lines written, followed by the sentinel once the reader
\* has ended; so what the driver has dequeued is a prefix of the lines written
\* followed by one sentinel.
C10_FifoThenOneSentinel ==
    /\ consumed \o q \o stdout
         = emitted \o (IF reader_done THEN <<None>> ELSE <<>>)
    /\ IsPrefix(consumed, emitted \o <<None>>)

\* the number of terminal events (result records, the sentinel) in s
Terminals(s) == Cardinality({ k \in 1..Len(s) : IsTerminal(s[k]) })

\* C11: the input channel is closed before the exit wait, and the exit wait
\* never ends the session by an exception: whether or not the subprocess exits
\* in time, the session terminates with its summary line.
C11_CloseWaitThenSummary ==
    /\ pc \in {"exit_wait", "done"} => ~stdin_open
    /\ ~stdin_open => pc \in {"exit_wait", "done"}
    /\ pc = "done" => peak # -1

\* C12: an interactive session leaves its loop only by an interrupt, and then
\* it is closing: no turn is awaited any more, the input channel is closed
\* before the exit wait, and the interrupted turn left no row: there is one row
\* per terminal event dequeued, the ordinal is the number of rows and prev is
\* the total of the last row.
C12_InterruptLeadsToClosed ==
    (Interactive /\ pc \in {"close", "exit_wait", "done"}) =>
        /\ ~awaiting
        /\ pc # "close" => ~stdin_open
        /\ Len(rows) = Terminals(consumed)
        /\ turn = Len(rows)
        /\ prev = (IF rows = <<>> THEN 0 ELSE Last(rows).total)
        /\ sent \in {turn, turn + 1}

\* C12 witness: a session that completed one turn, was interrupted in the
\* middle of its interactive turn and has ended
C12_Witness ==
    /\ Interactive
    /\ pc = "done"
    /\ turn = 1
    /\ sent = 2
    /\ Len(consumed) > turn_from
    /\ ~IsTerminal(Last(consumed))

\* C13: dequeuing a record that decodes and whose type is neither assistant
\* nor result (a system/hook record, an unknown type) raises nothing, prints
\* nothing and leaves slot, ordinal, prev and the turn state unchanged; the
\* driver goes on waiting. The analyzer likewise does not change state.
C13_OtherRecordIgnored ==
    [][ /\ (awaiting /\ q # <<>> /\ Head(q) # None /\ Decodes(Head(q))
              /\ TypeOf(Head(q)) \notin {"assistant", "result"}
              /\ consumed' # consumed)
           => (awaiting' /\ pc' = pc /\ last' = last /\ turn' = turn
                 /\ prev' = prev /\ rows' = rows /\ peak' = peak /\ sent' = sent)
        /\ (emitted' # emitted /\ Decodes(Last(emitted'))
              /\ TypeOf(Last(emitted')) \notin {"assistant", "result"})
           => replay' = replay ]_vars

\* C13 witness: a turn that dequeued usage and then another record, and still waits
C13_Witness ==
    /\ awaiting
    /\ Len(TurnLines) = 2
    /\ TurnLines[1].kind = "assistant"
    /\ TurnLines[2].kind = "other"
    /\ last.total = 15001

\* the largest total among the rows R, 0 if there is none
MaxTotal(R) ==
    IF R = <<>> THEN 0
    ELSE CHOOSE m \in { R[k].total : k \in 1..Len(R) } :
            \A k \in 1..Len(R) : R[k].total <= m

\* C14: the summary line reports the maximum total over the rows printed (0 if
\* none) and floor(peak * 100 / 200000), in the live driver and in the analyzer.
C14_PeakIsMaximum ==
    /\ pc = "done" =>
          /\ peak = MaxTotal(rows)
          /\ PeakPct(peak) = (MaxTotal(rows) * 100) \div 200000
    /\ replay.pc = "scan" =>
          /\ Peak(replay.prev) = MaxTotal(replay.rows)
          /\ PeakPct(Peak(replay.prev)) = (MaxTotal(replay.rows) * 100) \div 200000

\* the index of the first text or tool_use block of c, 0 if there is none
FirstUsable(c) ==
    LET U == { k \in 1..Len(c) : c[k].type \in {"text", "tool_use"} } IN
    IF U = {} THEN 0 ELSE CHOOSE k \in U : \A j \in U : k <= j

\* C15: the label is decided by the first text or tool_use block: the first 40
\* characters of a text block, [name] for a tool_use block, the empty label
\* when there is neither; other blocks before it are skipped.
C15_LabelIsFirstUsableBlock ==
    pc = "labelled" =>
        LET k == FirstUsable(content) IN
        IF k = 0 THEN note = <<>>
        ELSE IF content[k].type = "text"
        THEN /\ Len(note) = (IF Len(content[k].text) < 40 THEN Len(content[k].text) ELSE 40)
             /\ \A j \in 1..Len(note) : note[j] = content[k].text[j]
        ELSE note = <<"[", content[k].name, "]">>

\* C15 witness: a skipped block, then a text longer than 40 characters, then a
\* tool_use block; the label is the first 40 characters of the text
C15_Witness ==
    /\ pc = "labelled"
    /\ Len(content) = 3
    /\ content[1].type = "thinking"
    /\ content[2].type = "text"
    /\ Len(content[2].text) = 41
    /\ content[3].type = "tool_use"
    /\ Len(note) = 40

\* C16: at most one message is outstanding and each message is followed by one
\* row before the next is submitted: while a turn is awaited the messages sent
\* are one more than the rows, between turns they are as many; row k carries
\* ordinal k and the ordinal counter is the number of rows.
C16_StrictAlternation ==
    /\ sent \in {Len(rows), Len(rows) + 1}
    /\ awaiting => sent = Len(rows) + 1
    /\ (~awaiting /\ pc \in {"prompt", "initial", "wait", "post_wait", "interactive"})
          => sent = Len(rows)
    /\ turn = Len(rows)
    /\ \A k \in 1..Len(rows) : rows[k].turn = k

\* C16 witness: two completed turns, rows 1 and 2, nothing outstanding
C16_Witness ==
    /\ ~awaiting
    /\ sent = 2
    /\ Len(rows) = 2
    /\ rows[1].turn = 1
    /\ rows[2].turn = 2

\* the turns configured before the wait phase
PreWaitTurns == (IF args.prompt THEN 1 ELSE 0) + args.turns

\* C17: the wait phase is entered once, between turns, when every initial turn
\* has its row and no follow-up turn has begun; during it ordinal, prev, rows
\* and the dequeued items do not change and the queue only grows; the first
\* post-wait row has the next ordinal and its delta is against the last
\* pre-wait total.
C17_WaitPhaseFrame ==
    /\ [](/\ pc = "wait" =>
                (~awaiting /\ turn = PreWaitTurns /\ Len(rows) = PreWaitTurns
                   /\ sent = PreWaitTurns)
          /\ (pc = "post_wait" /\ Len(rows) > PreWaitTurns) =>
                /\ rows[PreWaitTurns + 1].turn = PreWaitTurns + 1
                /\ rows[PreWaitTurns + 1].delta =
                       rows[PreWaitTurns + 1].total
                         - (IF PreWaitTurns = 0 THEN 0 ELSE rows[PreWaitTurns].total))
    /\ [][ /\ pc = "wait" =>
                (turn' = turn /\ prev' = prev /\ rows' = rows /\ sent' = sent
                   /\ consumed' = consumed /\ IsPrefix(q, q'))
           /\ (pc # "wait" /\ pc' = "wait") =>
                (pc = "initial" /\ ~awaiting /\ i >= args.turns /\ slept = 0) ]_vars

\* C17 witness: one turn before the pause, the whole pause slept, and the first
\* post-wait row printed with ordinal 2 and a delta against the pre-wait total
C17_Witness ==
    /\ pc = "post_wait"
    /\ PreWaitTurns = 1
    /\ slept = 45
    /\ Len(rows) = 2
    /\ rows[1].total = 5000
    /\ rows[2].delta = -5000

\* slot s is empty or holds the four counters of one assistant record dequeued
FromOneRecord(s) ==
    \/ s = EmptySlot
    \/ \E k \in 1..Len(consumed) :
          /\ consumed[k].kind = "assistant"
          /\ s = Slot(consumed[k].usage[1] + consumed[k].usage[2] + consumed[k].usage[3],
                      consumed[k].usage[1], consumed[k].usage[2],
                      consumed[k].usage[3], consumed[k].usage[4])

ConsistentSlot(s) ==
    /\ s.total = s.inp + s.cc + s.cr
    /\ s.total = 0 <=> (s.inp = 0 /\ s.cc = 0 /\ s.cr = 0)
    /\ FromOneRecord(s)

\* C18: in every live row, and in the slot at all times, total = new +
\* cache-creation + cache-read, the four counters are those of one assistant
\* record, and total is 0 exactly when the three input counters are 0.
C18_RowFromOneRecord ==
    /\ ConsistentSlot(last)
    /\ \A k \in 1..Len(rows) : ConsistentSlot(SlotOfRow(rows[k]))

\* C18 witness: a closed turn that dequeued two usage records; the row carries
\* the four counters of the second
C18_Witness ==
    /\ TurnClosed
    /\ Len(TurnLines) = 3
    /\ TurnLines[1].usage = <<0, 0, 5000, 2>>
    /\ TurnLines[2].usage = <<1, 5000, 10000, 3>>
    /\ SlotOfRow(Last(rows)) = Slot(15001, 1, 5000, 10000, 3)

\* the slots of the turns closed within the first n items of s, and the slot
\* of the turn still open, when every turn starts from the empty slot
RECURSIVE TurnSlots(_, _)
TurnSlots(s, n) ==
    IF n = 0 THEN [closed |-> <<>>, cur |-> EmptySlot]
    ELSE LET f == TurnSlots(s, n - 1) IN
         IF IsTerminal(s[n])
         THEN [closed |-> Append(f.closed, f.cur), cur |-> EmptySlot]
         ELSE IF s[n].kind = "assistant"
                   /\ s[n].usage[1] + s[n].usage[2] + s[n].usage[3] > 0
         THEN [f EXCEPT !.cur = Slot(s[n].usage[1] + s[n].usage[2] + s[n].usage[3],
                                     s[n].usage[1], s[n].usage[2],
                                     s[n].usage[3], s[n].usage[4])]
         ELSE f

\* C19: every record written is dequeued at most once and in order, and row k
\* reports the last non-zero usage dequeued between the (k-1)th and the kth
\* terminal event, all zeros if there was none: each turn starts from an empty
\* slot and a record that follows a result record counts for the next turn.
C19_SlotResetPerTurn ==
    /\ SelectSeq(consumed \o q, LAMBDA l : l # None) \o stdout = emitted
    /\ [k \in 1..Len(rows) |-> SlotOfRow(rows[k])]
          = TurnSlots(consumed, Len(consumed)).closed

\* C19 witness: a turn with usage followed by a turn that dequeued only its
\* result record; the second row is all zeros
C19_Witness ==
    /\ Len(rows) = 2
    /\ Len(consumed) = 3
    /\ consumed[1].kind = "assistant"
    /\ consumed[3].kind = "result"
    /\ rows[1].total = 15001
    /\ SlotOfRow(rows[2]) = EmptySlot

\* ceil(W / 30)
SleepCount(W) == (W + 29) \div 30

\* the wait phase is over
PastWait ==
    \/ pc = "post_wait"
    \/ args.wait > 0 /\ pc \in {"interactive", "close", "exit_wait", "done"}

\* C20: during the wait the loop has reported at W, W-30, ... and after k
\* sleeps has slept min(30k, W); when the wait is over it has slept ceil(W/30)
\* times and W seconds in all; with W = 0 there is no wait and no follow-up turn.
C20_SleepsSumToWait ==
    /\ pc = "wait" =>
          \E k \in 0..SleepCount(args.wait) :
              /\ remaining = args.wait - 30 * k
              /\ slept = (IF 30 * k < args.wait THEN 30 * k ELSE args.wait)
    /\ PastWait =>
          /\ slept = args.wait
          /\ remaining = args.wait - 30 * SleepCount(args.wait)
    /\ args.wait = 0 =>
          /\ slept = 0
          /\ pc \notin {"wait", "post_wait"}
          /\ sent <= PreWaitTurns + inputs
    /\ slept <= args.wait

\* C20 witness: a wait of 45 s, slept as 30 + 15, and a follow-up turn begun
C20_Witness ==
    /\ args.wait = 45
    /\ pc = "post_wait"
    /\ slept = 45
    /\ remaining = -15
    /\ sent = PreWaitTurns + 1

====
